---- MODULE Spec2Model ----
(***************************************************************************)
(* Model of hpat/hiframes_sort.py: the Sort IR node's distributed run.     *)
(* sort_distributed_run emits a local sort of the key array with its data  *)
(* columns and, when every array is 1D-partitioned, a call of              *)
(* par_sort_impl: parallel_sort (sample, bounds, routing scan, shuffle)    *)
(* followed by a local sort of the received rows.                          *)
(*                                                                         *)
(* One process per MPI rank.  A rank's local action runs the code from the *)
(* return of one collective to the call of the next; a collective          *)
(* completes for all ranks at once, when every rank has called it.         *)
(* Arrays are 1-based sequences here: index i of the code is i+1.          *)
(***************************************************************************)
EXTENDS Integers, Sequences, FiniteSets, TLC

(* ---- bounds of the model ---- *)
MaxWorkers == 3
MaxLen == 2
MaxRows == 4
MaxKey == 3
MaxTotal == 24
MaxRuns == 2

(* ---- program constants ---- *)
MIN_SAMPLES == 1000000
samplePointsPerPartitionHint == 20
MPI_ROOT == 0

(* hpat.distributed_analysis.Distribution values used by the sort node *)
REP == 1
OneD_Var == 4
OneD == 5
Dists == {REP, OneD_Var, OneD}
Thread == 2
TwoD == 3
AllDists == {REP, Thread, TwoD, OneD_Var, OneD}

(* content of a buffer allocated with np.empty and not yet written *)
UNINIT == 0 - 1

Keys == 1..MaxKey

VARIABLES n_pes, array_dists, in_key, in_data, key_arr, data, pc, n_total,
          samples, all_samples, bounds, node_ids, shuffle_meta, out_data,
          calls, a2av_args, sampler, sort_node, node_before, dists_before,
          analysed, lives, ret

(* the state of one sort call on all ranks *)
run_vars == <<n_pes, array_dists, in_key, in_data, key_arr, data, pc, n_total,
              samples, all_samples, bounds, node_ids, shuffle_meta, out_data,
              calls, a2av_args>>

(* the state of the stand-alone runs of the sampler arithmetic and of the    *)
(* compiler passes over the Sort node: the node, the arrays' distributions   *)
(* before the analysis, the live variables, what remove_dead_sort returned   *)
aux == <<sampler, sort_node, node_before, dists_before, analysed, lives, ret>>

passes == <<sort_node, node_before, dists_before, analysed, lives, ret>>

vars == <<run_vars, aux>>

Ranks == 0..(n_pes - 1)

(* ---- helpers ---- *)
Min2(a, b) == IF a <= b THEN a ELSE b

Max2(a, b) == IF a >= b THEN a ELSE b

(* math.ceil(a / b) for a >= 0, b > 0 *)
CeilDiv(a, b) == (a + b - 1) \div b

RECURSIVE SumSeq(_)
SumSeq(s) == IF s = <<>> THEN 0 ELSE Head(s) + SumSeq(Tail(s))

RECURSIVE SumTo(_, _)
SumTo(f, r) == IF r < 0 THEN 0 ELSE f[r] + SumTo(f, r - 1)

RECURSIVE ConcatTo(_, _)
ConcatTo(f, r) == IF r < 0 THEN <<>> ELSE ConcatTo(f, r - 1) \o f[r]

Fill(n, v) == [i \in 1..n |-> v]

SeqsUpTo(S, n) == UNION {[1..m -> S] : m \in 0..n}

IsSorted(s) == \A i \in 1..(Len(s) - 1) : s[i] <= s[i + 1]

(* ---- hpat.timsort.sort: stable ascending sort of keys, data moved in lockstep ---- *)
SortPos(keys, i) ==
    1 + Cardinality({j \in 1..Len(keys) :
                        keys[j] < keys[i] \/ (keys[j] = keys[i] /\ j < i)})

SortSrc(keys, k) == CHOOSE i \in 1..Len(keys) : SortPos(keys, i) = k

timsort_keys(keys) == [k \in 1..Len(keys) |-> keys[SortSrc(keys, k)]]

timsort_data(keys, dat) == [k \in 1..Len(keys) |-> dat[SortSrc(keys, k)]]

(* ---- sort_distributed_run: the generated local sort f(key_arr, c0) ---- *)
sort_impl_skip(keys, dat) == [k |-> keys, d |-> dat]

sort_impl_keysonly(keys, dat) == [k |-> timsort_keys(keys), d |-> dat]

sort_impl(keys, dat) == [k |-> timsort_keys(keys), d |-> timsort_data(keys, dat)]

(* ---- sort_distributed_run: the parallel flag ---- *)
parallel_keyonly(dists) == dists.key \in {OneD, OneD_Var}

parallel_flag(dists) ==
    \A v \in {"key", "c0"} : ~(dists[v] # OneD /\ dists[v] # OneD_Var)

(* ---- sort_distributed_analysis ---- *)
MinDist(S) == CHOOSE x \in S : \A y \in S : x <= y

MaxDist(S) == CHOOSE x \in S : \A y \in S : x >= y

analysis_in_dist_max(node, dists) ==
    MaxDist({dists[node.key_arr]} \cup {dists[node.df_vars[c]] : c \in DOMAIN node.df_vars})

(* lines 66-69: the minimum of the key array's and the columns' distributions *)
analysis_in_dist(node, dists) ==
    MinDist({dists[node.key_arr]} \cup {dists[node.df_vars[c]] : c \in DOMAIN node.df_vars})

(* lines 72-74: the array_dists the analysis leaves *)
sort_distributed_analysis(node, dists) ==
    [v \in DOMAIN dists |->
        IF v = node.key_arr \/ \E c \in DOMAIN node.df_vars : node.df_vars[c] = v
        THEN analysis_in_dist(node, dists)
        ELSE dists[v]]

(* ---- remove_dead_sort ---- *)
(* lines 105-112: the columns whose variable is live stay in df_vars *)
live_cols(node, lv) == {c \in DOMAIN node.df_vars : node.df_vars[c] \in lv}

(* lines 115-118: None for an empty node whose key array is dead *)
remove_dead_ret_or(node, lv) ==
    IF DOMAIN node.df_vars = {} \/ node.key_arr \notin lv THEN "None" ELSE "node"

remove_dead_ret(node, lv) ==
    IF Cardinality(DOMAIN node.df_vars) = 0 /\ node.key_arr \notin lv THEN "None" ELSE "node"

(* ---- parallel_sort: sample size ---- *)
sampleSize(npes) == Min2(samplePointsPerPartitionHint * npes, MIN_SAMPLES)

(* min(ceil(fraction * n_local), n_local), fraction = min(sampleSize / max(n_total, 1), 1.0) *)
n_loc_samples_floor(npes, ntotal, nlocal) ==
    LET ss == sampleSize(npes)
        den == Max2(ntotal, 1)
    IN  IF ss >= den THEN nlocal
        ELSE Min2((ss * nlocal) \div den, nlocal)

n_loc_samples(npes, ntotal, nlocal) ==
    LET ss == sampleSize(npes)
        den == Max2(ntotal, 1)
    IN  IF ss >= den THEN nlocal
        ELSE Min2(CeilDiv(ss * nlocal, den), nlocal)

(* the values line 290 can produce in double arithmetic: fraction * n_local is  *)
(* rounded, so when fraction < 1 and the exact product is a whole number k the  *)
(* computed product may lie just above k and math.ceil then gives k + 1         *)
n_loc_samples_fp(npes, ntotal, nlocal) ==
    LET ss == sampleSize(npes)
        den == Max2(ntotal, 1)
        exact == n_loc_samples(npes, ntotal, nlocal)
    IN  IF ss < den /\ nlocal > 0 /\ (ss * nlocal) % den = 0
        THEN {exact, Min2(exact + 1, nlocal)}
        ELSE {exact}

(* ---- parallel_sort: bounds at the root, n_samples >= 1 ---- *)
calc_bounds_floor(sorted, npes) ==
    LET n_samples == Len(sorted)
        step == n_samples \div npes
    IN  [i \in 1..(npes - 1) |-> sorted[Min2(i * step, n_samples - 1) + 1]]

calc_bounds(sorted, npes) ==
    LET n_samples == Len(sorted)
        step == CeilDiv(n_samples, npes)
    IN  [i \in 1..(npes - 1) |-> sorted[Min2(i * step, n_samples - 1) + 1]]

(* ---- parallel_sort: the routing scan; the node_id passed to update_shuffle_meta per row ---- *)
RECURSIVE scan_from(_, _, _, _, _)
scan_from(keys, bnds, npes, i, node_id) ==
    IF i > Len(keys) THEN <<>>
    ELSE LET nid == IF node_id < npes - 1 /\ keys[i] >= bnds[node_id + 1]
                    THEN node_id + 1 ELSE node_id
         IN  <<nid>> \o scan_from(keys, bnds, npes, i + 1, nid)

RECURSIVE scan_from_gt(_, _, _, _, _)
scan_from_gt(keys, bnds, npes, i, node_id) ==
    IF i > Len(keys) THEN <<>>
    ELSE LET nid == IF node_id < npes - 1 /\ keys[i] > bnds[node_id + 1]
                    THEN node_id + 1 ELSE node_id
         IN  <<nid>> \o scan_from_gt(keys, bnds, npes, i + 1, nid)

scan_node_ids_gt(keys, bnds, npes) == scan_from_gt(keys, bnds, npes, 1, 0)

scan_node_ids(keys, bnds, npes) == scan_from(keys, bnds, npes, 1, 0)

(* ---- update_shuffle_meta ---- *)
update_shuffle_meta_skip0(send_counts, node_id) ==
    IF node_id = 0 THEN send_counts
    ELSE [send_counts EXCEPT ![node_id + 1] = @ + 1]

update_shuffle_meta(send_counts, node_id) ==
    [send_counts EXCEPT ![node_id + 1] = @ + 1]

RECURSIVE count_sends(_, _)
count_sends(send_counts, nids) ==
    IF nids = <<>> THEN send_counts
    ELSE count_sends(update_shuffle_meta(send_counts, Head(nids)), Tail(nids))

(* ---- alloc_shuffle_metadata: send_disp/recv_disp alias the count arrays ---- *)
alloc_shuffle_metadata(arr, npes) ==
    [send_counts |-> Fill(npes, 0), recv_counts |-> Fill(npes, UNINIT),
     out_arr |-> arr, n_out |-> 0,
     send_disp |-> Fill(npes, 0), recv_disp |-> Fill(npes, UNINIT)]

(* ---- hpat.hiframes_join.calc_disp: exclusive prefix sum ---- *)
calc_disp(counts) == [d \in 1..Len(counts) |-> SumSeq(SubSeq(counts, 1, d - 1))]

(* ---- finalize_impl, after the alltoall of the counts ---- *)
finalize_impl_nodisp(meta) ==
    LET n == SumSeq(meta.recv_counts)
    IN  [meta EXCEPT !.n_out = n, !.out_arr = Fill(n, UNINIT),
                     !.send_disp = meta.send_counts,
                     !.recv_disp = meta.recv_counts]

finalize_impl_swapdisp(meta) ==
    LET n == SumSeq(meta.recv_counts)
    IN  [meta EXCEPT !.n_out = n, !.out_arr = Fill(n, UNINIT),
                     !.send_disp = calc_disp(meta.recv_counts),
                     !.recv_disp = calc_disp(meta.send_counts)]

finalize_impl(meta) ==
    LET n == SumSeq(meta.recv_counts)
    IN  [meta EXCEPT !.n_out = n, !.out_arr = Fill(n, UNINIT),
                     !.send_disp = calc_disp(meta.send_counts),
                     !.recv_disp = calc_disp(meta.recv_counts)]

(* ---- the arguments parallel_sort passes to the two payload exchanges ---- *)
a2av_key_args(meta) ==
    [send_counts |-> meta.send_counts, recv_counts |-> meta.recv_counts,
     send_disp |-> meta.send_disp, recv_disp |-> meta.recv_disp]

a2av_tup_args(meta) ==
    [send_counts |-> meta.send_counts, recv_counts |-> meta.recv_counts,
     send_disp |-> meta.send_disp, recv_disp |-> meta.recv_disp]

(* ---- par_sort_impl: the sort of the received rows ---- *)
par_sort_impl_keysonly(out, odata) == [k |-> timsort_keys(out), d |-> odata]

par_sort_impl(out, odata) == [k |-> timsort_keys(out), d |-> timsort_data(out, odata)]

(* ---- MPI_Alltoallv: what rank r receives into recvbuf ---- *)
(* sendbuf[s], args[s]: send buffer and arguments of every rank s *)
alltoallv_recv(r, recvbuf, sendbuf, args) ==
    [i \in 1..Len(recvbuf) |->
        LET srcs == {s \in DOMAIN sendbuf :
                        /\ args[r].recv_disp[s + 1] <= i - 1
                        /\ i - 1 < args[r].recv_disp[s + 1] + args[r].recv_counts[s + 1]}
        IN  IF srcs = {} THEN recvbuf[i]
            ELSE LET s == CHOOSE x \in srcs : \A y \in srcs : y <= x
                     j == args[s].send_disp[r + 1] + (i - 1 - args[r].recv_disp[s + 1]) + 1
                 IN  IF j \in 1..Len(sendbuf[s]) THEN sendbuf[s][j] ELSE UNINIT]

(* ---- the sampler arithmetic on its own (parallel_sort lines 280-292) ---- *)
SamplerIdle ==
    [n_pes |-> 1, n_total |-> 0, n_local |-> 0, n_loc_samples |-> 0,
     drawn |-> 0, ind |-> UNINIT, phase |-> "idle"]

(* ---- the Sort node: key_arr and df_vars, column name -> variable name ---- *)
ColVar == [A |-> "c0", B |-> "c1", C |-> "c2"]

SortNode(cols) == [key_arr |-> "key", df_vars |-> [c \in cols |-> ColVar[c]]]

NodeArrays(node) == {node.key_arr} \cup {node.df_vars[c] : c \in DOMAIN node.df_vars}

PassesIdle ==
    /\ sort_node = SortNode({"A"})
    /\ node_before = sort_node
    /\ dists_before = array_dists
    /\ analysed = 0
    /\ lives = {}
    /\ ret = "pending"

(* ---- initial states ---- *)
(* the data column is a row tag: the row's index in the rank-ordered input *)
TagsOf(ik, r) == [i \in 1..Len(ik[r]) |-> SumTo([x \in DOMAIN ik |-> Len(ik[x])], r - 1) + i]

ScenarioKeys == (0 :> <<5, 1, 9>>) @@ (1 :> <<3, 8, 2>>)

InitInputs(np, ik) ==
    \/ /\ np \in 1..MaxWorkers
       /\ ik \in [0..(np - 1) -> SeqsUpTo(Keys, MaxLen)]
       /\ SumTo([x \in DOMAIN ik |-> Len(ik[x])], np - 1) <= MaxRows
    \/ /\ np = 2
       /\ ik = ScenarioKeys

Init ==
    /\ n_pes \in 1..MaxWorkers
    /\ array_dists \in [{"key", "c0"} -> Dists]
    /\ in_key \in {ScenarioKeys} \cup [0..(n_pes - 1) -> SeqsUpTo(Keys, MaxLen)]
    /\ InitInputs(n_pes, in_key)
    /\ in_data = [r \in Ranks |-> TagsOf(in_key, r)]
    /\ key_arr = in_key
    /\ data = in_data
    /\ pc = [r \in Ranks |-> "start"]
    /\ n_total = [r \in Ranks |-> 0]
    /\ samples = [r \in Ranks |-> <<>>]
    /\ all_samples = <<>>
    /\ bounds = [r \in Ranks |-> <<>>]
    /\ node_ids = [r \in Ranks |-> <<>>]
    /\ shuffle_meta = [r \in Ranks |-> alloc_shuffle_metadata(<<>>, 0)]
    /\ out_data = [r \in Ranks |-> <<>>]
    /\ calls = [r \in Ranks |-> <<>>]
    /\ a2av_args = [r \in Ranks |-> <<>>]
    /\ sampler = SamplerIdle
    /\ PassesIdle

(* ---- actions of one rank ---- *)
Call(r, name) == calls' = [calls EXCEPT ![r] = Append(@, name)]

(* the generated local sort; replicated input ends here, else parallel_sort starts *)
LocalSort(r) ==
    /\ r \in Ranks
    /\ pc[r] = "start"
    /\ LET s == sort_impl(key_arr[r], data[r])
       IN  /\ key_arr' = [key_arr EXCEPT ![r] = s.k]
           /\ data' = [data EXCEPT ![r] = s.d]
    /\ IF parallel_flag(array_dists)
       THEN /\ pc' = [pc EXCEPT ![r] = "dist_reduce"]
            /\ Call(r, "dist_reduce")
       ELSE /\ pc' = [pc EXCEPT ![r] = "done"]
            /\ UNCHANGED calls
    /\ UNCHANGED <<aux, n_pes, array_dists, in_key, in_data, n_total, samples,
                   all_samples, bounds, node_ids, shuffle_meta, out_data, a2av_args>>

(* np.random.randint(0, n_local, n_loc_samples); samples = key_arr[inds]; gatherv *)
Sample(r) ==
    /\ r \in Ranks
    /\ pc[r] = "sampling"
    /\ LET n_local == Len(key_arr[r])
       IN  \E k \in n_loc_samples_fp(n_pes, n_total[r], n_local) :
           \E inds \in [1..k -> 1..n_local] :
               samples' = [samples EXCEPT ![r] = [i \in 1..k |-> key_arr[r][inds[i]]]]
    /\ pc' = [pc EXCEPT ![r] = "gatherv"]
    /\ Call(r, "gatherv")
    /\ UNCHANGED <<aux, n_pes, array_dists, in_key, in_data, key_arr, data, n_total,
                   all_samples, bounds, node_ids, shuffle_meta, out_data, a2av_args>>

(* root: sort the gathered samples and pick the cuts; then bcast *)
RootBounds(r) ==
    /\ r \in Ranks
    /\ pc[r] = "bounds"
    /\ r = MPI_ROOT
    /\ (Len(all_samples) > 0 \/ n_pes = 1)
    /\ LET sorted == timsort_keys(all_samples)
       IN  /\ all_samples' = sorted
           /\ bounds' = [bounds EXCEPT ![r] = calc_bounds(sorted, n_pes)]
    /\ pc' = [pc EXCEPT ![r] = "bcast"]
    /\ Call(r, "bcast")
    /\ UNCHANGED <<aux, n_pes, array_dists, in_key, in_data, key_arr, data, n_total,
                   samples, node_ids, shuffle_meta, out_data, a2av_args>>

(* root, n_samples = 0 and n_pes > 1: bounds[i] = all_samples[min(0, -1)] reads   *)
(* index -1 of an empty sequence. A list (string keys) raises IndexError.         *)
RootBoundsIndexError(r) ==
    /\ r \in Ranks
    /\ pc[r] = "bounds"
    /\ r = MPI_ROOT
    /\ Len(all_samples) = 0
    /\ n_pes > 1
    /\ pc' = [pc EXCEPT ![r] = "error"]
    /\ UNCHANGED <<aux, n_pes, array_dists, in_key, in_data, key_arr, data, n_total,
                   samples, all_samples, bounds, node_ids, shuffle_meta, out_data,
                   calls, a2av_args>>

(* same read on a numpy array (no bounds check under njit): every cut gets the    *)
(* word found before the empty buffer                                             *)
RootBoundsOutOfRange(r) ==
    /\ r \in Ranks
    /\ pc[r] = "bounds"
    /\ r = MPI_ROOT
    /\ Len(all_samples) = 0
    /\ n_pes > 1
    /\ \E g \in {UNINIT} \cup Keys :
           bounds' = [bounds EXCEPT ![r] = Fill(n_pes - 1, g)]
    /\ pc' = [pc EXCEPT ![r] = "bcast"]
    /\ Call(r, "bcast")
    /\ UNCHANGED <<aux, n_pes, array_dists, in_key, in_data, key_arr, data, n_total,
                   samples, all_samples, node_ids, shuffle_meta, out_data, a2av_args>>

(* other ranks: bounds = empty_like_type(n_pes - 1, all_samples); then bcast *)
NonRootBounds(r) ==
    /\ r \in Ranks
    /\ pc[r] = "bounds"
    /\ r # MPI_ROOT
    /\ bounds' = [bounds EXCEPT ![r] = Fill(n_pes - 1, UNINIT)]
    /\ pc' = [pc EXCEPT ![r] = "bcast"]
    /\ Call(r, "bcast")
    /\ UNCHANGED <<aux, n_pes, array_dists, in_key, in_data, key_arr, data, n_total,
                   samples, all_samples, node_ids, shuffle_meta, out_data, a2av_args>>

(* alloc_shuffle_metadata, the routing scan, finalize_shuffle_meta up to its alltoall *)
Route(r) ==
    /\ r \in Ranks
    /\ pc[r] = "route"
    /\ LET meta == alloc_shuffle_metadata(key_arr[r], n_pes)
           nids == scan_node_ids(key_arr[r], bounds[r], n_pes)
           sc == count_sends(meta.send_counts, nids)
       IN  /\ node_ids' = [node_ids EXCEPT ![r] = nids]
           /\ shuffle_meta' = [shuffle_meta EXCEPT
                                 ![r] = [meta EXCEPT !.send_counts = sc, !.send_disp = sc]]
    /\ pc' = [pc EXCEPT ![r] = "alltoall"]
    /\ Call(r, "alltoall")
    /\ UNCHANGED <<aux, n_pes, array_dists, in_key, in_data, key_arr, data, n_total,
                   samples, all_samples, bounds, out_data, a2av_args>>

(* rest of finalize_impl, then alltoallv(key_arr, shuffle_meta) *)
Finalize(r) ==
    /\ r \in Ranks
    /\ pc[r] = "finalize"
    /\ LET meta == finalize_impl(shuffle_meta[r])
       IN  /\ shuffle_meta' = [shuffle_meta EXCEPT ![r] = meta]
           /\ a2av_args' = [a2av_args EXCEPT ![r] = Append(@, a2av_key_args(meta))]
    /\ pc' = [pc EXCEPT ![r] = "alltoallv"]
    /\ Call(r, "alltoallv")
    /\ UNCHANGED <<aux, n_pes, array_dists, in_key, in_data, key_arr, data, n_total,
                   samples, all_samples, bounds, node_ids, out_data>>

(* a sort of the received keys placed before the column exchange *)
AllocTup_sortfirst(r) ==
    /\ r \in Ranks
    /\ pc[r] = "alloc_tup"
    /\ key_arr' = [key_arr EXCEPT ![r] = timsort_keys(shuffle_meta[r].out_arr)]
    /\ pc' = [pc EXCEPT ![r] = "done"]
    /\ UNCHANGED <<aux, n_pes, array_dists, in_key, in_data, data, n_total, samples,
                   all_samples, bounds, node_ids, shuffle_meta, out_data, calls, a2av_args>>

(* out_data = alloc_arr_tup(n_out, data), then alltoallv_tup *)
AllocTup(r) ==
    /\ r \in Ranks
    /\ pc[r] = "alloc_tup"
    /\ out_data' = [out_data EXCEPT ![r] = Fill(shuffle_meta[r].n_out, UNINIT)]
    /\ a2av_args' = [a2av_args EXCEPT ![r] = Append(@, a2av_tup_args(shuffle_meta[r]))]
    /\ pc' = [pc EXCEPT ![r] = "alltoallv_tup"]
    /\ Call(r, "alltoallv_tup")
    /\ UNCHANGED <<aux, n_pes, array_dists, in_key, in_data, key_arr, data, n_total,
                   samples, all_samples, bounds, node_ids, shuffle_meta>>

(* par_sort_impl after parallel_sort returns: key_arr = out, data = out_data, sort in place *)
PostSort(r) ==
    /\ r \in Ranks
    /\ pc[r] = "postsort"
    /\ LET s == par_sort_impl(shuffle_meta[r].out_arr, out_data[r])
       IN  /\ key_arr' = [key_arr EXCEPT ![r] = s.k]
           /\ data' = [data EXCEPT ![r] = s.d]
           /\ shuffle_meta' = [shuffle_meta EXCEPT ![r].out_arr = s.k]
           /\ out_data' = [out_data EXCEPT ![r] = s.d]
    /\ pc' = [pc EXCEPT ![r] = "done"]
    /\ UNCHANGED <<aux, n_pes, array_dists, in_key, in_data, n_total, samples,
                   all_samples, bounds, node_ids, calls, a2av_args>>

(* ---- collectives: complete when every rank has called them ---- *)
AllAt(p) == \A r \in Ranks : pc[r] = p

AllTo(p) == pc' = [r \in Ranks |-> p]

(* dist_reduce(n_local, Sum) *)
DistReduce ==
    /\ AllAt("dist_reduce")
    /\ n_total' = [r \in Ranks |-> SumTo([x \in Ranks |-> Len(key_arr[x])], n_pes - 1)]
    /\ AllTo("sampling")
    /\ UNCHANGED <<aux, n_pes, array_dists, in_key, in_data, key_arr, data, samples,
                   all_samples, bounds, node_ids, shuffle_meta, out_data, calls, a2av_args>>

(* gatherv(samples): the root gets the samples concatenated in rank order *)
Gatherv ==
    /\ AllAt("gatherv")
    /\ all_samples' = ConcatTo(samples, n_pes - 1)
    /\ AllTo("bounds")
    /\ UNCHANGED <<aux, n_pes, array_dists, in_key, in_data, key_arr, data, n_total,
                   samples, bounds, node_ids, shuffle_meta, out_data, calls, a2av_args>>

(* bcast(bounds) from the root *)
Bcast ==
    /\ AllAt("bcast")
    /\ bounds' = [r \in Ranks |-> bounds[MPI_ROOT]]
    /\ AllTo("route")
    /\ UNCHANGED <<aux, n_pes, array_dists, in_key, in_data, key_arr, data, n_total,
                   samples, all_samples, node_ids, shuffle_meta, out_data, calls, a2av_args>>

(* alltoall(send_counts, recv_counts, 1); recv_disp still aliases recv_counts *)
Alltoall ==
    /\ AllAt("alltoall")
    /\ shuffle_meta' =
         [r \in Ranks |->
            LET rc == [s \in 1..n_pes |-> shuffle_meta[s - 1].send_counts[r + 1]]
            IN  [shuffle_meta[r] EXCEPT !.recv_counts = rc, !.recv_disp = rc]]
    /\ AllTo("finalize")
    /\ UNCHANGED <<aux, n_pes, array_dists, in_key, in_data, key_arr, data, n_total,
                   samples, all_samples, bounds, node_ids, out_data, calls, a2av_args>>

(* alltoallv of the key array into out_arr *)
Alltoallv ==
    /\ AllAt("alltoallv")
    /\ shuffle_meta' =
         [r \in Ranks |->
            [shuffle_meta[r] EXCEPT !.out_arr =
                alltoallv_recv(r, shuffle_meta[r].out_arr, key_arr,
                               [s \in Ranks |-> a2av_args[s][1]])]]
    /\ AllTo("alloc_tup")
    /\ UNCHANGED <<aux, n_pes, array_dists, in_key, in_data, key_arr, data, n_total,
                   samples, all_samples, bounds, node_ids, out_data, calls, a2av_args>>

(* alltoallv_tup of the data column into out_data *)
AlltoallvTup ==
    /\ AllAt("alltoallv_tup")
    /\ out_data' =
         [r \in Ranks |->
            alltoallv_recv(r, out_data[r], data, [s \in Ranks |-> a2av_args[s][2]])]
    /\ AllTo("postsort")
    /\ UNCHANGED <<aux, n_pes, array_dists, in_key, in_data, key_arr, data, n_total,
                   samples, all_samples, bounds, node_ids, shuffle_meta, calls, a2av_args>>

Step(r) ==
    \/ LocalSort(r)
    \/ Sample(r)
    \/ RootBounds(r)
    \/ RootBoundsIndexError(r)
    \/ RootBoundsOutOfRange(r)
    \/ NonRootBounds(r)
    \/ Route(r)
    \/ Finalize(r)
    \/ AllocTup(r)
    \/ PostSort(r)

Collective ==
    \/ DistReduce
    \/ Gatherv
    \/ Bcast
    \/ Alltoall
    \/ Alltoallv
    \/ AlltoallvTup

Next ==
    \/ \E r \in 0..(MaxWorkers - 1) : Step(r)
    \/ Collective

Spec == Init /\ [][Next]_vars

(* every rank is a running process; a collective returns once all ranks are in it *)
FairSpec ==
    /\ Spec
    /\ \A r \in 0..(MaxWorkers - 1) : WF_vars(Step(r))
    /\ WF_vars(Collective)

(* ---- the sampler run alone, for row counts beyond those of Spec ---- *)
RunIdle ==
    /\ n_pes = 1
    /\ in_key = [r \in Ranks |-> <<>>]
    /\ in_data = [r \in Ranks |-> <<>>]
    /\ key_arr = in_key
    /\ data = in_data
    /\ pc = [r \in Ranks |-> "done"]
    /\ n_total = [r \in Ranks |-> 0]
    /\ samples = [r \in Ranks |-> <<>>]
    /\ all_samples = <<>>
    /\ bounds = [r \in Ranks |-> <<>>]
    /\ node_ids = [r \in Ranks |-> <<>>]
    /\ shuffle_meta = [r \in Ranks |-> alloc_shuffle_metadata(<<>>, 0)]
    /\ out_data = [r \in Ranks |-> <<>>]
    /\ calls = [r \in Ranks |-> <<>>]
    /\ a2av_args = [r \in Ranks |-> <<>>]

(* n_local = len(key_arr) on one rank, n_total the sum over all ranks *)
SamplerInit ==
    /\ RunIdle
    /\ array_dists = [v \in {"key", "c0"} |-> REP]
    /\ PassesIdle
    /\ \E np \in 1..MaxWorkers : \E nt \in 0..MaxTotal : \E nl \in 0..nt :
          sampler = [SamplerIdle EXCEPT !.n_pes = np, !.n_total = nt, !.n_local = nl,
                                        !.phase = "start"]

(* lines 287-290 *)
SamplerCount ==
    /\ sampler.phase = "start"
    /\ \E k \in n_loc_samples_fp(sampler.n_pes, sampler.n_total, sampler.n_local) :
          sampler' = [sampler EXCEPT !.n_loc_samples = k, !.phase = "randint"]
    /\ UNCHANGED <<run_vars, passes>>

(* np.random.randint(0, n_local, n_loc_samples) fills one element: a value of *)
(* [0, n_local), an error when that range is empty                             *)
SamplerDraw ==
    /\ sampler.phase = "randint"
    /\ sampler.drawn < sampler.n_loc_samples
    /\ IF sampler.n_local <= 0
       THEN sampler' = [sampler EXCEPT !.phase = "error"]
       ELSE \E i \in 0..(sampler.n_local - 1) :
               sampler' = [sampler EXCEPT !.ind = i, !.drawn = @ + 1]
    /\ UNCHANGED <<run_vars, passes>>

(* samples = key_arr[inds], handed to gatherv *)
SamplerDone ==
    /\ sampler.phase = "randint"
    /\ sampler.drawn >= sampler.n_loc_samples
    /\ sampler' = [sampler EXCEPT !.phase = "gatherv"]
    /\ UNCHANGED <<run_vars, passes>>

SamplerNext ==
    \/ SamplerCount
    \/ SamplerDraw
    \/ SamplerDone

SamplerSpec == SamplerInit /\ [][SamplerNext]_vars

(* ---- the distributed-analysis pass over a Sort node ---- *)
AnalysisArrays == {"key", "c0", "c1", "other"}

AnalysisInit ==
    /\ RunIdle
    /\ sampler = SamplerIdle
    /\ array_dists \in [AnalysisArrays -> AllDists]
    /\ sort_node \in {SortNode(cols) : cols \in SUBSET {"A", "B"}}
    /\ node_before = sort_node
    /\ dists_before = array_dists
    /\ analysed = 0
    /\ lives = {}
    /\ ret = "pending"

AnalysisPass ==
    /\ analysed < MaxRuns
    /\ array_dists' = sort_distributed_analysis(sort_node, array_dists)
    /\ analysed' = analysed + 1
    /\ UNCHANGED <<n_pes, in_key, in_data, key_arr, data, pc, n_total, samples,
                   all_samples, bounds, node_ids, shuffle_meta, out_data, calls,
                   a2av_args, sampler, sort_node, node_before, dists_before, lives, ret>>

AnalysisNext == AnalysisPass

AnalysisSpec == AnalysisInit /\ [][AnalysisNext]_vars

(* ---- the dead-code pass over a Sort node ---- *)
DeadVars == {"key", "c0", "c1", "c2", "other"}

DeadInit ==
    /\ RunIdle
    /\ sampler = SamplerIdle
    /\ array_dists = [v \in {"key", "c0"} |-> REP]
    /\ dists_before = array_dists
    /\ analysed = 0
    /\ sort_node \in {SortNode(cols) : cols \in SUBSET {"A", "B", "C"}}
    /\ node_before = sort_node
    /\ lives \in SUBSET DeadVars
    /\ ret = "pending"

RemoveDeadSort ==
    /\ ret = "pending"
    /\ LET kept == live_cols(sort_node, lives)
           node == [sort_node EXCEPT !.df_vars = [c \in kept |-> sort_node.df_vars[c]]]
       IN  /\ sort_node' = node
           /\ ret' = remove_dead_ret(node, lives)
    /\ UNCHANGED <<run_vars, sampler, node_before, dists_before, analysed, lives>>

DeadNext == RemoveDeadSort

DeadSpec == DeadInit /\ [][DeadNext]_vars

TypeOK ==
    /\ n_pes \in 1..MaxWorkers
    /\ \A r \in Ranks : Len(key_arr[r]) = Len(data[r])

(* ---- vocabulary of the properties ---- *)
AllDone == \A r \in Ranks : pc[r] = "done"

(* every array of the sort node is 1D-partitioned *)
Partitioned == \A v \in DOMAIN array_dists : array_dists[v] \in {OneD, OneD_Var}

(* positions of a rank after its routing scan and before its post-shuffle sort *)
Routed == {"alltoall", "finalize", "alltoallv", "alloc_tup", "alltoallv_tup", "postsort"}

(* positions of a rank after finalize_impl has set n_out and the displacements *)
Finalized == {"alltoallv", "alloc_tup", "alltoallv_tup", "postsort", "done"}

AfterBcast == Routed \cup {"route", "done"}

InputKeys == ConcatTo(in_key, n_pes - 1)

TotalRows == Len(InputKeys)

RowsOf(kf, df) ==
    ConcatTo([r \in Ranks |-> [i \in 1..Len(kf[r]) |-> <<kf[r][i], df[r][i]>>]], n_pes - 1)

CountOf(seq, x) == Cardinality({i \in DOMAIN seq : seq[i] = x})

SameBag(a, b) ==
    /\ Len(a) = Len(b)
    /\ \A i \in DOMAIN a : CountOf(a, a[i]) = CountOf(b, a[i])

(* the key that carried tag t in the input *)
OrigKey(t) == InputKeys[t]

Aligned(ks, ds) ==
    /\ Len(ks) = Len(ds)
    /\ \A i \in 1..Len(ks) : ds[i] \in 1..TotalRows /\ OrigKey(ds[i]) = ks[i]

UpperBound(bnds, x) == Cardinality({b \in 1..Len(bnds) : bnds[b] <= x})

ExclusivePrefix(disp, counts) ==
    /\ Len(disp) = Len(counts)
    /\ \A d \in 1..Len(disp) :
          disp[d] = IF d = 1 THEN 0 ELSE disp[d - 1] + counts[d - 1]

CollectiveOrder ==
    <<"dist_reduce", "gatherv", "bcast", "alltoall", "alltoallv", "alltoallv_tup">>

IsPrefix(a, b) == Len(a) <= Len(b) /\ a = SubSeq(b, 1, Len(a))

Shuffled(r) == \E i \in 1..Len(calls[r]) : calls[r][i] \in {"alltoall", "alltoallv", "alltoallv_tup"}

(* C1: once the partitioned sort call has completed on all ranks, the key     *)
(* arrays concatenated in rank order 0..W-1 are non-decreasing.               *)
C1_GlobalOrder ==
    (Partitioned /\ AllDone) => IsSorted(ConcatTo(key_arr, n_pes - 1))

(* C2: the multiset of (key, column) rows after the call is the multiset      *)
(* before it; the send counts of a rank sum to its local row count and the    *)
(* n_out of all ranks sum to the global row count n_total.                    *)
C2_Conservation ==
    /\ AllDone => SameBag(RowsOf(in_key, in_data), RowsOf(key_arr, data))
    /\ \A r \in Ranks :
          pc[r] \in Routed => SumSeq(shuffle_meta[r].send_counts) = Len(key_arr[r])
    /\ (Partitioned /\ \A r \in Ranks : pc[r] \in Finalized) =>
          /\ SumTo([r \in Ranks |-> shuffle_meta[r].n_out], n_pes - 1) = TotalRows
          /\ \A r \in Ranks : n_total[r] = TotalRows

C2_Witness ==
    /\ AllDone
    /\ Partitioned
    /\ n_pes = 3
    /\ \E r \in Ranks : \E s \in Ranks :
          s # r /\ shuffle_meta[r].recv_counts[s + 1] > 0 /\ shuffle_meta[r].n_out >= 2

(* C3: after the payload exchange and after the final local sort, on every    *)
(* rank the column value at row i is the one that accompanied the key at row  *)
(* i in the input; ranks holding [5,1,9]/[a,b,c] and [3,8,2]/[d,e,f] end as   *)
(* keys 1,2,3,5,8,9 with tags b,f,d,a,e,c.                                    *)
C3_Alignment ==
    /\ \A r \in Ranks :
          /\ pc[r] = "postsort" => Aligned(shuffle_meta[r].out_arr, out_data[r])
          /\ pc[r] = "done" => Aligned(key_arr[r], data[r])
    /\ (AllDone /\ Partitioned /\ in_key = ScenarioKeys) =>
          /\ ConcatTo(key_arr, n_pes - 1) = <<1, 2, 3, 5, 8, 9>>
          /\ ConcatTo(data, n_pes - 1) = <<2, 6, 4, 1, 5, 3>>

C3_Witness ==
    /\ AllDone
    /\ Partitioned
    /\ in_key = ScenarioKeys
    /\ Len(key_arr[0]) > 0
    /\ Len(key_arr[1]) > 0

(* C4: the destination the routing scan gives a row with key x is the number  *)
(* of broadcast boundaries that are <= x.                                     *)
C4_Routing ==
    \A r \in Ranks :
        pc[r] \in Routed =>
            \A i \in 1..Len(key_arr[r]) :
                node_ids[r][i] = UpperBound(bounds[r], key_arr[r][i])

(* C5: when every rank's key array is empty the call fails on no rank and     *)
(* ends with a zero-length output on every rank.                              *)
C5_EmptyInput ==
    (\A r \in Ranks : in_key[r] = <<>>) =>
        \A r \in Ranks :
            /\ pc[r] # "error"
            /\ pc[r] = "done" => (key_arr[r] = <<>> /\ data[r] = <<>>)

(* C6: every rank calls the collectives in one and the same order, and every  *)
(* rank eventually reaches the terminal state.                                *)
C6_CollectiveCompletion ==
    /\ [](\A r \in Ranks : IsPrefix(calls[r], CollectiveOrder))
    /\ <>AllDone

(* C7: the shuffle path is taken only when the key array and every column are *)
(* OneD or OneD_Var; otherwise the call is the local sort alone and calls no  *)
(* collective.                                                                *)
C7_ReplicatedShortcut ==
    \A r \in Ranks :
        /\ calls[r] # <<>> => Partitioned
        /\ ~Partitioned =>
              /\ pc[r] \in {"start", "done"}
              /\ pc[r] = "done" =>
                    /\ key_arr[r] = timsort_keys(in_key[r])
                    /\ data[r] = timsort_data(in_key[r], in_data[r])

C7_Witness ==
    /\ AllDone
    /\ n_pes >= 2
    /\ array_dists.key = OneD
    /\ array_dists.c0 = REP
    /\ \E r \in Ranks : key_arr[r] # in_key[r]

(* C8 as stated: with one rank the output is the plain local sort of the      *)
(* input and neither the counts exchange nor a payload exchange is called.    *)
C8_SingleWorkerNoShuffle ==
    (n_pes = 1 /\ AllDone) =>
        /\ key_arr[0] = timsort_keys(in_key[0])
        /\ data[0] = timsort_data(in_key[0], in_data[0])
        /\ ~Shuffled(0)

(* C8 amended: with one rank the output is the plain local sort of the input; *)
(* the counts exchange and the payload exchanges are called exactly when the  *)
(* arrays are classified partitioned, and then send every row to rank 0.      *)
C8_SingleWorker ==
    (n_pes = 1 /\ AllDone) =>
        /\ key_arr[0] = timsort_keys(in_key[0])
        /\ data[0] = timsort_data(in_key[0], in_data[0])
        /\ Shuffled(0) <=> Partitioned
        /\ Partitioned =>
              /\ calls[0] = CollectiveOrder
              /\ shuffle_meta[0].send_counts = <<Len(in_key[0])>>

C8_Witness ==
    /\ n_pes = 1
    /\ AllDone
    /\ Partitioned
    /\ Len(in_key[0]) = 2
    /\ in_key[0][1] > in_key[0][2]

(* C9: after the broadcast every rank holds the same W-1 cuts, non-decreasing, *)
(* and with at least one sample cut i is the sorted gathered sample at index   *)
(* min((i+1)*step, totalSamples-1), step = ceil(totalSamples / W).             *)
C9_Bounds ==
    (Partitioned /\ \A r \in Ranks : pc[r] \in AfterBcast) =>
        /\ \A r \in Ranks :
              /\ bounds[r] = bounds[MPI_ROOT]
              /\ Len(bounds[r]) = n_pes - 1
              /\ IsSorted(bounds[r])
        /\ IsSorted(all_samples)
        /\ SameBag(all_samples, ConcatTo(samples, n_pes - 1))
        /\ Len(all_samples) >= 1 =>
              LET n == Len(all_samples)
                  step == CHOOSE c \in 0..n : c * n_pes >= n /\ (c - 1) * n_pes < n
              IN  \A i \in 0..(n_pes - 2) :
                      bounds[MPI_ROOT][i + 1] =
                          all_samples[(IF (i + 1) * step < n - 1 THEN (i + 1) * step ELSE n - 1) + 1]

C9_Witness ==
    /\ n_pes = 3
    /\ Partitioned
    /\ \A r \in Ranks : pc[r] \in AfterBcast
    /\ Len(all_samples) = 2
    /\ bounds[2] = <<all_samples[2], all_samples[2]>>
    /\ all_samples[1] < all_samples[2]

(* C10: after the counts exchange rank j's receive count for source i is rank *)
(* i's send count for destination j; n_out is the sum of the receive counts,  *)
(* the displacements are the exclusive prefix sums of the counts, and the key *)
(* array and the column are exchanged with these same counts/displacements.   *)
C10_ShufflePlan ==
    /\ (Partitioned /\ \A r \in Ranks : pc[r] \in Finalized \cup {"finalize"}) =>
          \A i \in Ranks : \A j \in Ranks :
              shuffle_meta[j].recv_counts[i + 1] = shuffle_meta[i].send_counts[j + 1]
    /\ \A r \in Ranks :
          (Partitioned /\ pc[r] \in Finalized) =>
              LET m == shuffle_meta[r]
              IN  /\ m.n_out = SumSeq(m.recv_counts)
                  /\ Len(m.out_arr) = m.n_out
                  /\ ExclusivePrefix(m.send_disp, m.send_counts)
                  /\ ExclusivePrefix(m.recv_disp, m.recv_counts)
                  /\ \A k \in 1..Len(a2av_args[r]) :
                        /\ a2av_args[r][k].send_counts = m.send_counts
                        /\ a2av_args[r][k].recv_counts = m.recv_counts
                        /\ a2av_args[r][k].send_disp = m.send_disp
                        /\ a2av_args[r][k].recv_disp = m.recv_disp
                  /\ pc[r] \in {"alltoallv_tup", "postsort", "done"} =>
                        (Len(a2av_args[r]) = 2 /\ Len(out_data[r]) = m.n_out)

C10_Witness ==
    /\ n_pes = 3
    /\ Partitioned
    /\ AllDone
    /\ \E r \in Ranks :
          /\ Len(a2av_args[r]) = 2
          /\ shuffle_meta[r].recv_disp[3] = 2
          /\ shuffle_meta[r].send_disp[3] = 2
          /\ shuffle_meta[r].n_out = 3

(* C11: the number of sampled keys is min(ceil(fraction * localRows),         *)
(* localRows), sampleSize = min(20 * W, 1000000), fraction = min(sampleSize / *)
(* max(globalTotalRows, 1), 1); it lies in [0, localRows], every sampled      *)
(* index lies in [0, localRows), and a rank without rows draws an empty       *)
(* sample without error.                                                      *)
C11_SamplerCount ==
    sampler.phase \in {"randint", "gatherv", "error"} =>
        LET W == sampler.n_pes
            rows == sampler.n_local
            size == IF 20 * W <= 1000000 THEN 20 * W ELSE 1000000
            total == IF sampler.n_total >= 1 THEN sampler.n_total ELSE 1
            (* least c with c >= (size / total) * rows, in exact arithmetic *)
            c == CHOOSE x \in 0..(size * rows) :
                    x * total >= size * rows /\ (x - 1) * total < size * rows
            whole == (size * rows) % total = 0
            k == sampler.n_loc_samples
        IN  /\ sampler.phase # "error"
            /\ k \in 0..rows
            /\ size >= total => k = rows
            /\ size < total =>
                  \/ k = c
                  \/ whole /\ rows > 0 /\ k = c + 1
            /\ sampler.drawn <= k
            /\ sampler.drawn > 0 => sampler.ind \in 0..(rows - 1)
            /\ rows = 0 => (k = 0 /\ sampler.drawn = 0)

C11_Witness ==
    /\ sampler.phase = "gatherv"
    /\ sampler.n_pes = 1
    /\ sampler.n_total = 24
    /\ sampler.n_local = 7
    /\ sampler.n_loc_samples = 6
    /\ sampler.drawn = 6

C11_WitnessEmpty ==
    /\ sampler.phase = "gatherv"
    /\ sampler.n_total > 0
    /\ sampler.n_local = 0

(* the positions of a rank in the shuffle path, in program order *)
PcOrder ==
    <<"start", "dist_reduce", "sampling", "gatherv", "bounds", "bcast", "route",
      "alltoall", "finalize", "alltoallv", "alloc_tup", "alltoallv_tup", "postsort", "done">>

NoUninit(sq) == \A i \in 1..Len(sq) : sq[i] # UNINIT

(* C12: in the shuffle path a rank goes through sampling, the bounds gather / *)
(* computation / broadcast, routing, the counts exchange and the payload      *)
(* exchange of keys and column in this order, and only then sorts exactly the *)
(* n_out received rows, keys with their column; nothing follows the sort.     *)
C12_StepOrder ==
    [][\A r \in Ranks :
          (Partitioned /\ pc'[r] # pc[r]) =>
              /\ \E i \in 1..(Len(PcOrder) - 1) :
                    /\ pc[r] = PcOrder[i]
                    /\ \/ pc'[r] = PcOrder[i + 1]
                       \/ pc[r] = "bounds" /\ pc'[r] = "error"
              /\ pc'[r] = "gatherv" => Len(samples'[r]) <= Len(key_arr[r])
              /\ pc'[r] = "route" => Len(bounds'[r]) = n_pes - 1
              /\ pc'[r] = "alltoall" => Len(node_ids'[r]) = Len(key_arr[r])
              /\ pc'[r] = "done" =>
                    /\ calls[r] = CollectiveOrder
                    /\ Len(shuffle_meta[r].out_arr) = shuffle_meta[r].n_out
                    /\ Len(out_data[r]) = shuffle_meta[r].n_out
                    /\ NoUninit(shuffle_meta[r].out_arr)
                    /\ NoUninit(out_data[r])
                    /\ key_arr'[r] = timsort_keys(shuffle_meta[r].out_arr)
                    /\ data'[r] = timsort_data(shuffle_meta[r].out_arr, out_data[r])]_vars

C12_Witness ==
    /\ Partitioned
    /\ AllDone
    /\ n_pes = 2
    /\ \E r \in Ranks :
          /\ shuffle_meta[r].n_out = 3
          /\ shuffle_meta[r].recv_counts[1] > 0
          /\ shuffle_meta[r].recv_counts[2] > 0

(* C13: after sort_distributed_analysis the key array and every column of the *)
(* node carry one distribution, the minimum of those they had before; a       *)
(* second application changes nothing, and no distribution is ever raised.    *)
C13_WeakestCommon ==
    /\ \A v \in DOMAIN array_dists : array_dists[v] <= dists_before[v]
    /\ analysed >= 1 =>
          LET arrs == NodeArrays(sort_node)
          IN  /\ \A v \in arrs : \A w \in arrs : array_dists[v] = array_dists[w]
              /\ \E w \in arrs : array_dists[sort_node.key_arr] = dists_before[w]
              /\ \A w \in arrs : array_dists[sort_node.key_arr] <= dists_before[w]
              /\ \A v \in DOMAIN array_dists \ arrs : array_dists[v] = dists_before[v]

C13_Witness ==
    /\ analysed = 2
    /\ DOMAIN sort_node.df_vars = {"A", "B"}
    /\ dists_before.key = OneD
    /\ dists_before.c0 = OneD_Var
    /\ dists_before.c1 = TwoD
    /\ dists_before.other = OneD
    /\ array_dists.key = TwoD
    /\ array_dists.c0 = TwoD

(* positions of a rank inside parallel_sort, its key array still the local one *)
InParallelSort == {"dist_reduce", "sampling", "gatherv", "bounds", "bcast", "route"} \cup Routed

(* positions of a rank with the displacements set and the local arrays not yet replaced *)
Exchanging == {"alltoallv", "alloc_tup", "alltoallv_tup", "postsort"}

RECURSIVE RowsFor(_, _, _)
RowsFor(arr, nids, d) ==
    IF arr = <<>> THEN <<>>
    ELSE (IF Head(nids) = d THEN <<Head(arr)>> ELSE <<>>) \o RowsFor(Tail(arr), Tail(nids), d)

(* C14: in the partitioned path the local sort of keys and column is complete *)
(* before parallel_sort starts: whenever the routing scan reads the local key *)
(* array it is non-decreasing and the column is row-aligned with it.          *)
C14_PreShuffleSort ==
    \A r \in Ranks :
        /\ calls[r] # <<>> => pc[r] # "start"
        /\ (Partitioned /\ pc[r] \in InParallelSort) =>
              /\ IsSorted(key_arr[r])
              /\ Aligned(key_arr[r], data[r])
              /\ SameBag(key_arr[r], in_key[r])
              /\ SameBag(data[r], in_data[r])

C14_Witness ==
    /\ Partitioned
    /\ n_pes = 2
    /\ pc[1] = "alltoall"
    /\ in_key[1] = <<3, 1>>
    /\ key_arr[1] = <<1, 3>>
    /\ data[1] # in_data[1]

(* C15: the destinations the scan assigns are non-decreasing in row order and *)
(* lie in [0, W); the rows assigned to d are exactly the local rows           *)
(* [send_disp[d], send_disp[d] + send_counts[d]), the slice both exchanges    *)
(* send to d.                                                                 *)
C15_ContiguousSlices ==
    /\ \A r \in Ranks :
          (Partitioned /\ pc[r] \in Routed) =>
              /\ IsSorted(node_ids[r])
              /\ \A i \in 1..Len(node_ids[r]) : node_ids[r][i] \in 0..(n_pes - 1)
    /\ \A r \in Ranks :
          (Partitioned /\ pc[r] \in Exchanging) =>
              LET m == shuffle_meta[r]
              IN  /\ \A d \in Ranks :
                        {i \in 1..Len(key_arr[r]) : node_ids[r][i] = d} =
                            (m.send_disp[d + 1] + 1)..(m.send_disp[d + 1] + m.send_counts[d + 1])
                  /\ \A k \in 1..Len(a2av_args[r]) :
                        /\ a2av_args[r][k].send_disp = m.send_disp
                        /\ a2av_args[r][k].send_counts = m.send_counts
    /\ (Partitioned /\ AllAt("postsort")) =>
          \A d \in Ranks :
              /\ shuffle_meta[d].out_arr =
                    ConcatTo([s \in Ranks |-> RowsFor(key_arr[s], node_ids[s], d)], n_pes - 1)
              /\ out_data[d] =
                    ConcatTo([s \in Ranks |-> RowsFor(data[s], node_ids[s], d)], n_pes - 1)

C15_Witness ==
    /\ Partitioned
    /\ n_pes = 3
    /\ AllAt("postsort")
    /\ node_ids[1] = <<0, 1>>
    /\ node_ids[2] = <<1, 2>>

(* C16: with the local keys sorted and the boundaries non-decreasing, the     *)
(* destination the scan gives a key x is never greater than the number of     *)
(* boundaries <= x, and equals it when there are at most two ranks.           *)
C16_NoOvershoot ==
    \A r \in Ranks :
        (Partitioned /\ pc[r] \in Routed) =>
            \A i \in 1..Len(key_arr[r]) :
                /\ node_ids[r][i] <= UpperBound(bounds[r], key_arr[r][i])
                /\ n_pes <= 2 => node_ids[r][i] = UpperBound(bounds[r], key_arr[r][i])

C16_Witness ==
    /\ Partitioned
    /\ n_pes = 3
    /\ \E r \in Ranks :
          /\ pc[r] \in Routed
          /\ \E i \in 1..Len(key_arr[r]) :
                node_ids[r][i] < UpperBound(bounds[r], key_arr[r][i])

(* C17: remove_dead_sort drops exactly the columns whose variable is not      *)
(* live and leaves the key array and the live columns as they were; it        *)
(* returns None if and only if no column remains and the key array is not     *)
(* live, so never while the key or a column of the node is live.              *)
C17_DeadColumns ==
    ret # "pending" =>
        LET before == node_before.df_vars
            after == sort_node.df_vars
        IN  /\ \A c \in DOMAIN before : c \in DOMAIN after <=> before[c] \in lives
            /\ \A c \in DOMAIN after : c \in DOMAIN before /\ after[c] = before[c]
            /\ sort_node.key_arr = node_before.key_arr
            /\ ret = "None" <=> (DOMAIN after = {} /\ sort_node.key_arr \notin lives)
            /\ ret = "None" =>
                  /\ node_before.key_arr \notin lives
                  /\ \A c \in DOMAIN before : before[c] \notin lives

C17_Witness ==
    /\ ret = "node"
    /\ DOMAIN node_before.df_vars = {"A", "B", "C"}
    /\ DOMAIN sort_node.df_vars = {"B"}
    /\ lives = {"c1", "other"}

C17_WitnessNone ==
    /\ ret = "None"
    /\ DOMAIN node_before.df_vars = {"A", "B"}
    /\ lives = {"other"}

====
